---- MODULE Spec2Model ----
(***************************************************************************)
(* Model of the text buffer of the sim editor: src/src/document.rs         *)
(* (Document) with the parts of Row, FileType and the file system that it  *)
(* calls.  Characters are one-character strings, texts are sequences of    *)
(* characters, row and column indices are 0-based as in the source.        *)
(***************************************************************************)
EXTENDS Integers, Sequences, FiniteSets, TLC

\* ------------------------------------------------------------------ bounds
\* most rows a document of the model grows to
MaxRows == 2
\* most characters (over all rows) a document of the model grows to
MaxChars == 2
\* most columns, and most text rows, of the terminal
MaxScreen == 1

\* -------------------------------------------------------- program constants
QUIT_TIMES == 3

\* ------------------------------------------------------------- input sets
NL == "\n"
\* characters typed into the document (besides the newline)
Chars == {"/", "*"}
\* Option<T>: None is the empty sequence, Some(v) the one-element sequence
None == <<>>
Some(v) == <<v>>
\* the file the editor is started on / saves to
FileNames == {<<"f", ".", "r", "s">>}
\* the words handed to Document.highlight
Words == {None, Some(<<"*">>)}
\* positions handed to insert/delete, in range and out of range
Positions == [x : 0..MaxChars, y : 0..(MaxRows + 1)]

Min(a, b) == IF a < b THEN a ELSE b

\* ---------------------------------------------------------------- FileType
DefaultFileType == "No filetype"

\* FileType::from(file_name): the extension selects the rule set
FileType_from(file_name) ==
    LET n == Len(file_name) IN
    IF n >= 3 /\ SubSeq(file_name, n - 2, n) = <<".", "r", "s">> THEN "Rust" ELSE DefaultFileType

\* FileType::highlighting_options
highlighting_options(file_type) == [multiline_comments |-> (file_type = "Rust")]

\* --------------------------------------------------------------------- Row
MlOpen == <<"/", "*">>
MlClose == <<"*", "/">>

StartsWith(chars, i, marker) ==
    /\ i + Len(marker) - 1 <= Len(chars)
    /\ SubSeq(chars, i, i + Len(marker) - 1) = marker

RECURSIVE Scan(_, _, _, _)
\* the left-to-right scan of the Highlighter from (1-based) index i;
\* in_comment is the scanner state; yields the tags and the final state
Scan(chars, i, in_comment, opts) ==
    IF i > Len(chars) THEN [tags |-> <<>>, out |-> in_comment]
    ELSE IF in_comment THEN
        IF StartsWith(chars, i, MlClose)
        THEN LET r == Scan(chars, i + 2, FALSE, opts)
             IN  [tags |-> <<"MultilineComment", "MultilineComment">> \o r.tags, out |-> r.out]
        ELSE LET r == Scan(chars, i + 1, TRUE, opts)
             IN  [tags |-> <<"MultilineComment">> \o r.tags, out |-> r.out]
    ELSE IF opts.multiline_comments /\ StartsWith(chars, i, MlOpen)
        THEN LET r == Scan(chars, i + 2, TRUE, opts)
             IN  [tags |-> <<"MultilineComment", "MultilineComment">> \o r.tags, out |-> r.out]
        ELSE LET r == Scan(chars, i + 1, FALSE, opts)
             IN  [tags |-> <<"None">> \o r.tags, out |-> r.out]

\* the second pass: every occurrence of word is tagged "Match"
highlight_match(chars, tags, word) ==
    IF word = None \/ word[1] = <<>> THEN tags
    ELSE [i \in 1..Len(tags) |->
            IF \E j \in 1..Len(chars) :
                  /\ j <= i
                  /\ i < j + Len(word[1])
                  /\ StartsWith(chars, j, word[1])
            THEN "Match" ELSE tags[i]]

Row_default == [string |-> <<>>, highlighting |-> <<>>]

\* Row::from(line)
Row_from(line) == [string |-> line, highlighting |-> <<>>]

Row_len(row) == Len(row.string)

\* Row::insert: before offset at, appended when at >= len
Row_insert(row, at, c) ==
    IF at >= Row_len(row)
    THEN [row EXCEPT !.string = Append(row.string, c)]
    ELSE [row EXCEPT !.string =
            SubSeq(row.string, 1, at) \o <<c>> \o SubSeq(row.string, at + 1, Row_len(row))]

\* Row::delete: removes the character at offset at, no-op when at >= len
Row_delete(row, at) ==
    IF at >= Row_len(row) THEN row
    ELSE [row EXCEPT !.string =
            SubSeq(row.string, 1, at) \o SubSeq(row.string, at + 2, Row_len(row))]

\* Row::append
Row_append(row, other) == [row EXCEPT !.string = row.string \o other.string]

\* Row::split: the row keeps [0, at), the new row owns [at, len)
Row_split(row, at) ==
    LET k == Min(at, Row_len(row)) IN
    [kept |-> [row EXCEPT !.string = SubSeq(row.string, 1, k)],
     new  |-> [string |-> SubSeq(row.string, k + 1, Row_len(row)), highlighting |-> <<>>]]

\* Row::highlight(opts, word, start_with_comment) -> continuation_out
Row_highlight(row, opts, word, start_with_comment) ==
    LET r == Scan(row.string, 1, start_with_comment, opts) IN
    [out |-> r.out,
     row |-> [row EXCEPT !.highlighting = highlight_match(row.string, r.tags, word)]]

\* ---------------------------------------------------------------- Document
\* Document::default()
Document_default ==
    [file_name |-> None, file_type |-> DefaultFileType, rows |-> <<>>, dirty |-> FALSE]

\* a call's outcome: the document it leaves and whether it panicked
\* (an index out of bounds aborts the program before any further change)
Returned(doc) == [doc |-> doc, panic |-> FALSE]
Panicked(doc) == [doc |-> doc, panic |-> TRUE]

\* Vec::insert(index, element) and Vec::remove(index), 0-based
Vec_insert(v, index, e) == SubSeq(v, 1, index) \o <<e>> \o SubSeq(v, index + 1, Len(v))
Vec_remove(v, index) == SubSeq(v, 1, index) \o SubSeq(v, index + 2, Len(v))

\* Document::len
Document_len(doc) == Len(doc.rows)

\* the row contents of a document, without the highlighting
Text(doc) == [i \in 1..Len(doc.rows) |-> doc.rows[i].string]

\* mutant: the row index len(rows), which appends a row, taken as out of range
insert_out_of_range_at_len(doc, at) == at.y >= Len(doc.rows)

\* Document::insert, Document::insert_newline: the row index is out of range
insert_out_of_range(doc, at) == at.y > Document_len(doc)

\* mutant: the row index len(rows) taken as in range
delete_out_of_range_above_len(doc, at) == at.y > Len(doc.rows)

\* Document::delete: the row index is out of range
delete_out_of_range(doc, at) == at.y >= Document_len(doc)

\* mutant: the assignment left out
mark_dirty_left_out(doc) == doc

\* self.dirty = true of Document::insert and Document::delete
mark_dirty(doc) == [doc EXCEPT !.dirty = TRUE]

\* mutant: the row split off put before the row it was split from
new_row_index_before(at) == at.y

\* Document::insert_newline: where the row split off is put
new_row_index(at) == at.y + 1

\* mutant: the two halves of a split row left with the highlighting they had
Document_insert_newline_unhighlighted(doc, at) ==
    IF insert_out_of_range(doc, at) THEN Returned(doc)
    ELSE IF at.y = Document_len(doc)
    THEN Returned([doc EXCEPT !.rows = Append(doc.rows, Row_default)])
    ELSE IF ~(at.y < Len(doc.rows)) THEN Panicked(doc)
    ELSE LET s == Row_split(doc.rows[at.y + 1], at.x)
         IN  Returned([doc EXCEPT !.rows =
                 Vec_insert([doc.rows EXCEPT ![at.y + 1] = s.kept],
                            new_row_index(at), s.new)])

\* Document::insert_newline
Document_insert_newline(doc, at) ==
    IF insert_out_of_range(doc, at) THEN Returned(doc)
    ELSE IF at.y = Document_len(doc)
    THEN Returned([doc EXCEPT !.rows = Append(doc.rows, Row_default)])
    ELSE IF ~(at.y < Len(doc.rows)) THEN Panicked(doc)
    ELSE LET opts == highlighting_options(doc.file_type)
             s == Row_split(doc.rows[at.y + 1], at.x)
             current_row == Row_highlight(s.kept, opts, None, FALSE).row
             new_row == Row_highlight(s.new, opts, None, FALSE).row
         IN  Returned([doc EXCEPT !.rows =
                 Vec_insert([doc.rows EXCEPT ![at.y + 1] = current_row],
                            new_row_index(at), new_row)])

\* mutant: the newline inserted like any other character
is_newline_never(c) == FALSE

\* Document::insert: the character is the newline (c == '\n')
is_newline(c) == c = NL

\* Document::insert
Document_insert(doc, at, c) ==
    IF insert_out_of_range(doc, at) THEN Returned(doc)
    ELSE LET d == mark_dirty(doc)
             opts == highlighting_options(doc.file_type)
         IN  IF is_newline(c) THEN Document_insert_newline(d, at)
             ELSE IF at.y = Document_len(d)
             THEN LET row == Row_highlight(Row_insert(Row_default, 0, c), opts, None, FALSE).row
                  IN  Returned([d EXCEPT !.rows = Append(d.rows, row)])
             ELSE IF ~(at.y < Len(d.rows)) THEN Panicked(d)
             ELSE LET row == Row_highlight(Row_insert(d.rows[at.y + 1], at.x, c),
                                           opts, None, FALSE).row
                  IN  Returned([d EXCEPT !.rows[at.y + 1] = row])

\* mutant: the end of the line found one column early
at_line_end_one_early(doc, at) == at.x + 1 >= Row_len(doc.rows[at.y + 1])

\* Document::delete: at is at the end of its line (at.x == rows[at.y].len())
at_line_end(doc, at) == at.x = Row_len(doc.rows[at.y + 1])

\* mutant: a line taken to follow the last row
line_follows_last_row(doc, at) == at.y + 1 <= Len(doc.rows)

\* Document::delete: a line follows the row (at.y + 1 < len)
line_follows(doc, at) == at.y + 1 < Document_len(doc)

\* mutant: the row itself removed in place of the next one
next_row_index_own(at) == at.y

\* Document::delete: the row of the next line that is removed and appended
next_row_index(at) == at.y + 1

\* mutant: every row highlighted again after the character is removed
Document_delete_cascading(doc, at) ==
    IF delete_out_of_range(doc, at) THEN Returned(doc)
    ELSE LET d == mark_dirty(doc)
             opts == highlighting_options(doc.file_type)
             removed == Vec_remove(d.rows, next_row_index(at))
             rows == IF at_line_end(d, at) /\ line_follows(d, at)
                     THEN [removed EXCEPT ![at.y + 1] =
                              Row_append(removed[at.y + 1], d.rows[next_row_index(at) + 1])]
                     ELSE [d.rows EXCEPT ![at.y + 1] = Row_delete(d.rows[at.y + 1], at.x)]
         IN  Returned([d EXCEPT !.rows =
                 [i \in 1..Len(rows) |-> Row_highlight(rows[i], opts, None, FALSE).row]])

\* Document::delete
Document_delete(doc, at) ==
    IF delete_out_of_range(doc, at) THEN Returned(doc)
    ELSE LET d == mark_dirty(doc)
             opts == highlighting_options(doc.file_type)
         IN  IF ~(at.y < Len(d.rows)) THEN Panicked(d)
             ELSE IF at_line_end(d, at) /\ line_follows(d, at)
             THEN IF ~(next_row_index(at) < Len(d.rows)) THEN Panicked(d)
                  ELSE LET next_row == d.rows[next_row_index(at) + 1]
                           removed == Vec_remove(d.rows, next_row_index(at))
                       IN  IF ~(at.y < Len(removed)) THEN Panicked(d)
                           ELSE LET row == Row_highlight(
                                               Row_append(removed[at.y + 1], next_row),
                                               opts, None, FALSE).row
                                IN  Returned([d EXCEPT !.rows =
                                                [removed EXCEPT ![at.y + 1] = row]])
             ELSE LET row == Row_highlight(Row_delete(d.rows[at.y + 1], at.x),
                                           opts, None, FALSE).row
                  IN  Returned([d EXCEPT !.rows[at.y + 1] = row])

RECURSIVE highlight_rows_unpropagated(_, _, _, _, _)
\* mutant: every row highlighted with starts_with_comment = false
highlight_rows_unpropagated(rows, i, opts, word, starts_with_comment) ==
    IF i > Len(rows) THEN rows
    ELSE LET r == Row_highlight(rows[i], opts, word, FALSE)
         IN  highlight_rows_unpropagated([rows EXCEPT ![i] = r.row], i + 1, opts, word, FALSE)

RECURSIVE highlight_rows(_, _, _, _, _)
\* the loop of Document::highlight and of Document::save over rows i..len
\* (1-based), carrying starts_with_comment from row to row
highlight_rows(rows, i, opts, word, starts_with_comment) ==
    IF i > Len(rows) THEN rows
    ELSE LET r == Row_highlight(rows[i], opts, word, starts_with_comment)
         IN  highlight_rows([rows EXCEPT ![i] = r.row], i + 1, opts, word, r.out)

\* Document::highlight
Document_highlight(doc, word) ==
    [doc EXCEPT !.rows =
        highlight_rows(doc.rows, 1, highlighting_options(doc.file_type), word, FALSE)]

\* Document::is_dirty
Document_is_dirty(doc) == doc.dirty

\* ------------------------------------------------------------------ search
\* SearchDirection
Forward == "Forward"
Backward == "Backward"

\* the offsets at which query occurs in the characters s (a plain substring
\* scan)
MatchOffsets(s, query) ==
    {j \in 0..Len(s) : j + Len(query) <= Len(s) /\ SubSeq(s, j + 1, j + Len(query)) = query}

\* Row::find: the leftmost match at offset >= at (Forward), the rightmost
\* match at offset <= at (Backward), None without one
Row_find(row, query, at, direction) ==
    LET from == IF direction = Forward
                THEN {j \in MatchOffsets(row.string, query) : j >= at}
                ELSE {j \in MatchOffsets(row.string, query) : j <= at}
    IN  IF from = {} THEN None
        ELSE IF direction = Forward
        THEN Some(CHOOSE j \in from : \A k \in from : j <= k)
        ELSE Some(CHOOSE j \in from : \A k \in from : j >= k)

\* Document::find: the row index is out of range
find_out_of_range(doc, at) == at.y >= Document_len(doc)

\* Document::find: start of the range the loop counts over
find_start(at, direction) == IF direction = Forward THEN at.y ELSE 0

\* mutant: the backward range ends at at.y, one short
find_end_one_short(doc, at, direction) ==
    IF direction = Forward THEN Len(doc.rows) ELSE at.y

\* Document::find: end of the range the loop counts over
find_end(doc, at, direction) ==
    IF direction = Forward THEN Len(doc.rows) ELSE at.y + 1

\* mutant: the column kept when the forward scan moves to the next row
forward_step_keeps_column(position) == [x |-> position.x, y |-> position.y + 1]

\* Document::find: the forward scan moves to the start of the next row
forward_step(position) == [x |-> 0, y |-> position.y + 1]

\* mutant: position.y - 1 without saturation
backward_row_unsaturated(position) == position.y - 1

\* Document::find: position.y.saturating_sub(1)
backward_row(position) == IF position.y > 0 THEN position.y - 1 ELSE 0

RECURSIVE find_loop(_, _, _, _, _, _)
\* the loop of Document::find with n iterations left; visited lists the
\* positions Row::find was called from
find_loop(doc, query, position, direction, n, visited) ==
    IF n <= 0 THEN [panic |-> FALSE, visited |-> visited, found |-> None]
    ELSE IF ~(position.y >= 0 /\ position.y < Len(doc.rows))
    THEN [panic |-> FALSE, visited |-> visited, found |-> None]
    ELSE LET x == Row_find(doc.rows[position.y + 1], query, position.x, direction)
             seen == Append(visited, position)
         IN  IF x # None
             THEN [panic |-> FALSE, visited |-> seen,
                   found |-> Some([x |-> x[1], y |-> position.y])]
             ELSE IF direction = Forward
             THEN find_loop(doc, query, forward_step(position), direction, n - 1, seen)
             ELSE LET y == backward_row(position) IN
                  IF ~(y >= 0 /\ y < Len(doc.rows))
                  THEN [panic |-> TRUE, visited |-> seen, found |-> None]
                  ELSE find_loop(doc, query, [x |-> Row_len(doc.rows[y + 1]), y |-> y],
                                 direction, n - 1, seen)

\* Document::find
Document_find(doc, query, at, direction) ==
    IF find_out_of_range(doc, at)
    THEN [panic |-> FALSE, visited |-> <<>>, found |-> None]
    ELSE find_loop(doc, query, [x |-> at.x, y |-> at.y], direction,
                   find_end(doc, at, direction) - find_start(at, direction), <<>>)

\* ------------------------------------------------------------- file system
\* a path of the disk: absent, or a file with its bytes
NoFile == [exists |-> FALSE, bytes |-> <<>>]
File(bytes) == [exists |-> TRUE, bytes |-> bytes]

\* 1-based index of the first newline of s, 0 when it has none
RECURSIVE FirstNL(_, _)
FirstNL(s, i) ==
    IF i > Len(s) THEN 0 ELSE IF s[i] = NL THEN i ELSE FirstNL(s, i + 1)

RECURSIVE lines(_)
\* str::lines: the text split at newlines, a final newline ends the last
\* line and starts no further one; a carriage return before it is dropped
lines(contents) ==
    IF contents = <<>> THEN <<>>
    ELSE LET k == FirstNL(contents, 1)
             raw == IF k = 0 THEN contents ELSE SubSeq(contents, 1, k - 1)
             line == IF k # 0 /\ Len(raw) > 0 /\ raw[Len(raw)] = "\r"
                     THEN SubSeq(raw, 1, Len(raw) - 1) ELSE raw
         IN  IF k = 0 THEN <<line>>
             ELSE <<line>> \o lines(SubSeq(contents, k + 1, Len(contents)))

\* Document::open(filename): [ok, doc]
Document_open(fs, filename) ==
    IF ~fs[filename].exists THEN [doc |-> Document_default, ok |-> FALSE]
    ELSE LET file_type == FileType_from(filename)
             ls == lines(fs[filename].bytes)
         IN  [doc |-> [file_name |-> Some(filename),
                       file_type |-> file_type,
                       rows |-> [i \in 1..Len(ls) |->
                                   Row_highlight(Row_from(ls[i]),
                                                 highlighting_options(file_type),
                                                 None, FALSE).row],
                       dirty |-> FALSE],
              ok |-> TRUE]

RECURSIVE save_rows(_, _, _, _, _, _)
\* the loop of Document::save from row i (1-based): writes is the number of
\* write_all calls that still succeed, bytes what the file holds so far
save_rows(rows, i, opts, starts_with_comment, writes, bytes) ==
    IF i > Len(rows) THEN [rows |-> rows, bytes |-> bytes, ok |-> TRUE]
    ELSE IF writes = 0 THEN [rows |-> rows, bytes |-> bytes, ok |-> FALSE]
    ELSE IF writes = 1
    THEN [rows |-> rows, bytes |-> bytes \o rows[i].string, ok |-> FALSE]
    ELSE LET r == Row_highlight(rows[i], opts, None, starts_with_comment)
         IN  save_rows([rows EXCEPT ![i] = r.row], i + 1, opts, r.out, writes - 2,
                       bytes \o rows[i].string \o <<NL>>)

\* mutant: the flag never cleared
dirty_after_save_kept(dirty, ok) == dirty

\* mutant: the flag cleared before the writes, whatever their outcome
dirty_after_save_cleared_early(dirty, ok) == FALSE

\* self.dirty = false of Document::save, reached when every write succeeded
dirty_after_save(dirty, ok) == IF ok THEN FALSE ELSE dirty

\* the body of `if let Some(file_name) = &self.file_name` of Document::save
\* under the I/O outcome io: io.create says whether File::create succeeds,
\* io.writes how many write_all calls succeed
save_to(doc, file_name, fs, io) ==
    IF ~io.create THEN [doc |-> doc, fs |-> fs, ret |-> "Err"]
    ELSE LET file_type == FileType_from(file_name)
             r == save_rows(doc.rows, 1, highlighting_options(file_type),
                            FALSE, io.writes, <<>>)
         IN  [doc |-> [doc EXCEPT !.file_type = file_type,
                                  !.rows = r.rows,
                                  !.dirty = dirty_after_save(doc.dirty, r.ok)],
              fs  |-> [fs EXCEPT ![file_name] = File(r.bytes)],
              ret |-> IF r.ok THEN "Ok" ELSE "Err"]

\* mutant: self.dirty = false placed after the `if let`, so that it is
\* reached without a file name too
Document_save_clean_without_name(doc, fs, io) ==
    IF doc.file_name = None
    THEN [doc |-> [doc EXCEPT !.dirty = FALSE], fs |-> fs, ret |-> "Ok"]
    ELSE save_to(doc, doc.file_name[1], fs, io)

\* Document::save under the I/O outcome io
Document_save(doc, fs, io) ==
    IF doc.file_name = None THEN [doc |-> doc, fs |-> fs, ret |-> "Ok"]
    ELSE save_to(doc, doc.file_name[1], fs, io)

\* ------------------------------------------------------------------ Editor
\* Key of termion, as far as Editor tells keys apart; c is the character of
\* Key::Char and Key::Ctrl
Key(kind, c) == [c |-> c, kind |-> kind]
CtrlQ == Key("Ctrl", "q")
CtrlS == Key("Ctrl", "s")
CtrlF == Key("Ctrl", "f")
Enter == Key("Char", NL)
Esc == Key("Esc", "")
MoveKeys == {Key(k, "") : k \in {"Up", "Down", "Left", "Right",
                                 "PageUp", "PageDown", "End", "Home"}}

\* Position::default()
Position_default == [x |-> 0, y |-> 0]

\* Editor::default on a terminal of the given Size; in_search is the place
\* in Editor::search, result and old_position the locals of prompt and search
\* while the search prompt reads keys (direction is assigned at the start of
\* every callback and carries nothing from key to key)
Editor_default(size) ==
    [size            |-> size,
     should_quit     |-> FALSE,
     cursor_position |-> Position_default,
     offset          |-> Position_default,
     quit_times      |-> QUIT_TIMES,
     in_search       |-> FALSE,
     result          |-> <<>>,
     old_position    |-> Position_default]

\* usize::saturating_sub
saturating_sub(a, b) == IF a > b THEN a - b ELSE 0

\* Document::row
Document_row(doc, index) ==
    IF index >= 0 /\ index < Len(doc.rows) THEN Some(doc.rows[index + 1]) ELSE None

\* self.document.row(y).map_or(0, Row::len)
row_width(doc, y) ==
    IF Document_row(doc, y) = None THEN 0 ELSE Row_len(Document_row(doc, y)[1])

\* one axis of Editor::scroll: the offset that keeps the coordinate v in a
\* window of the given extent
scroll_axis(v, offset, extent) ==
    IF v < offset THEN v
    ELSE IF v >= offset + extent THEN saturating_sub(v, extent) + 1
    ELSE offset

\* Editor::scroll
Editor_scroll(ed) ==
    [ed EXCEPT !.offset =
        [x |-> scroll_axis(ed.cursor_position.x, ed.offset.x, ed.size.width),
         y |-> scroll_axis(ed.cursor_position.y, ed.offset.y, ed.size.height)]]

\* mutant: x left as the key made it
clamp_x_left_out(x, width) == x

\* Editor::move_cursor: x does not exceed the width of the row moved to
clamp_x(x, width) == IF x > width THEN width ELSE x

\* Editor::move_cursor: the position the key moves (x, y) to, before x is
\* clamped
moved_by(doc, key, x, y, terminal_height) ==
    LET height == Document_len(doc)
        width == row_width(doc, y)
    IN  CASE key.kind = "Up" -> [x |-> x, y |-> saturating_sub(y, 1)]
          [] key.kind = "Down" -> [x |-> x, y |-> IF y < height THEN y + 1 ELSE y]
          [] key.kind = "Left" ->
                 IF x > 0 THEN [x |-> saturating_sub(x, 1), y |-> y]
                 ELSE IF y > 0 THEN [x |-> row_width(doc, y - 1), y |-> y - 1]
                 ELSE [x |-> x, y |-> y]
          [] key.kind = "Right" ->
                 IF x < width THEN [x |-> x + 1, y |-> y]
                 ELSE IF y < height THEN [x |-> 0, y |-> y + 1]
                 ELSE [x |-> x, y |-> y]
          [] key.kind = "PageUp" ->
                 [x |-> x, y |-> IF y > terminal_height
                                 THEN saturating_sub(y, terminal_height) ELSE 0]
          [] key.kind = "PageDown" ->
                 [x |-> x, y |-> IF y + terminal_height < height
                                 THEN y + terminal_height ELSE height]
          [] key.kind = "Home" -> [x |-> 0, y |-> y]
          [] key.kind = "End" -> [x |-> width, y |-> y]
          [] OTHER -> [x |-> x, y |-> y]

\* Editor::move_cursor
Editor_move_cursor(ed, doc, key) ==
    LET to == moved_by(doc, key, ed.cursor_position.x, ed.cursor_position.y,
                       ed.size.height)
    IN  [ed EXCEPT !.cursor_position =
            [x |-> clamp_x(to.x, row_width(doc, to.y)), y |-> to.y]]

\* what a key handler leaves: the editor, the document, the disk, whether it
\* panicked, and the position document.find returned when it was called
Handled(ed, doc, fs, panic) ==
    [doc |-> doc, panic |-> panic, found |-> None, fs |-> fs, ed |-> ed]

\* Editor::process_keypress after the match: scroll, and the countdown of
\* Ctrl-Q set back
keypress_end(ed) ==
    LET scrolled == Editor_scroll(ed) IN
    IF scrolled.quit_times < QUIT_TIMES
    THEN [scrolled EXCEPT !.quit_times = QUIT_TIMES]
    ELSE scrolled

\* mutant: the last warning skipped
asks_again_once_less(ed, doc) == ed.quit_times > 1 /\ Document_is_dirty(doc)

\* Key::Ctrl('q'): the press is answered with the warning
asks_again(ed, doc) == ed.quit_times > 0 /\ Document_is_dirty(doc)

\* Key::Ctrl('q')
press_quit(ed, doc, fs) ==
    IF asks_again(ed, doc)
    THEN Handled([ed EXCEPT !.quit_times = ed.quit_times - 1], doc, fs, FALSE)
    ELSE Handled(keypress_end([ed EXCEPT !.should_quit = TRUE]), doc, fs, FALSE)

\* Key::Char(c)
press_char(ed, doc, fs, c) ==
    LET r == Document_insert(doc, ed.cursor_position, c) IN
    Handled(keypress_end(Editor_move_cursor(ed, r.doc, Key("Right", ""))),
            r.doc, fs, r.panic)

\* Key::Delete
press_delete(ed, doc, fs) ==
    LET r == Document_delete(doc, ed.cursor_position) IN
    Handled(keypress_end(ed), r.doc, fs, r.panic)

\* Key::Backspace
press_backspace(ed, doc, fs) ==
    IF ed.cursor_position.x > 0 \/ ed.cursor_position.y > 0
    THEN LET left == Editor_move_cursor(ed, doc, Key("Left", ""))
             r == Document_delete(doc, left.cursor_position)
         IN  Handled(keypress_end(left), r.doc, fs, r.panic)
    ELSE Handled(keypress_end(ed), doc, fs, FALSE)

\* Key::Up | Down | Left | Right | PageUp | PageDown | End | Home
press_move(ed, doc, fs, key) ==
    Handled(keypress_end(Editor_move_cursor(ed, doc, key)), doc, fs, FALSE)

\* Editor::save: new_name is what the "Save as: " prompt returns, io the
\* outcome of the I/O of Document::save
Editor_save(doc, fs, new_name, io) ==
    IF doc.file_name = None /\ new_name = None THEN [doc |-> doc, fs |-> fs]
    ELSE LET named == IF doc.file_name = None
                      THEN [doc EXCEPT !.file_name = new_name] ELSE doc
             r == Document_save(named, fs, io)
         IN  [doc |-> r.doc, fs |-> r.fs]

\* Key::Ctrl('s')
press_save(ed, doc, fs, new_name, io) ==
    LET r == Editor_save(doc, fs, new_name, io) IN
    Handled(keypress_end(ed), r.doc, r.fs, FALSE)

\* Key::Ctrl('f'): Editor::search up to the first read of the prompt
search_begin(ed) ==
    [ed EXCEPT !.in_search = TRUE, !.result = <<>>,
               !.old_position = ed.cursor_position]

\* Editor::prompt: the result after the key
prompt_result(result, key) ==
    CASE key.kind = "Backspace" -> SubSeq(result, 1, saturating_sub(Len(result), 1))
      [] key.kind = "Char" /\ key # Enter -> Append(result, key.c)
      [] key.kind = "Esc" -> <<>>
      [] OTHER -> result

\* Editor::prompt: the key ends the loop
prompt_breaks(key) == key = Enter \/ key.kind = "Esc"

\* the direction the closure of Editor::search takes from the key
search_direction(key) ==
    IF key.kind \in {"Left", "Up"} THEN Backward ELSE Forward

\* the closure of Editor::search, called with the key and the query typed
search_callback(ed, doc, fs, key, query) ==
    LET moved == key.kind \in {"Right", "Down"}
        from == IF moved THEN Editor_move_cursor(ed, doc, Key("Right", "")) ELSE ed
        f == Document_find(doc, query, from.cursor_position, search_direction(key))
        to == IF f.found # None
              THEN Editor_scroll([from EXCEPT !.cursor_position = f.found[1]])
              ELSE IF moved THEN Editor_move_cursor(from, doc, Key("Left", ""))
              ELSE from
    IN  [Handled(to, Document_highlight(doc, Some(query)), fs, f.panic)
            EXCEPT !.found = f.found]

\* mutant: the cursor left where the search took it
cursor_after_search_kept(ed, query) == ed.cursor_position

\* Editor::search after the prompt: the cursor goes back without a query
cursor_after_search(ed, query) ==
    IF query = None THEN ed.old_position ELSE ed.cursor_position

\* Editor::search after the prompt returned, and the end of process_keypress
search_end(ed, doc, fs, result) ==
    LET query == IF result = <<>> THEN None ELSE Some(result)
        back == [ed EXCEPT !.cursor_position = cursor_after_search(ed, query)]
        shown == IF query = None THEN Editor_scroll(back) ELSE back
        left == [shown EXCEPT !.in_search = FALSE, !.result = <<>>,
                              !.old_position = Position_default]
    IN  Handled(keypress_end(left), Document_highlight(doc, None), fs, FALSE)

\* one key read by Editor::prompt in the search
prompt_key(ed, doc, fs, key) ==
    LET result == prompt_result(ed.result, key) IN
    IF prompt_breaks(key) THEN search_end(ed, doc, fs, result)
    ELSE search_callback([ed EXCEPT !.result = result], doc, fs, key, result)

\* ------------------------------------------------------------------- state
VARIABLES
    document,   \* the Document the editor owns
    disk,       \* the file system: file name -> file
    panicked,   \* the program aborted on an index out of bounds
    ret,        \* what the last call returned: "Ok", "Err", or "unit"
    last,       \* the last call: its name and arguments
    pre,        \* the document and the disk before the last call
    undo,       \* set by a delete(at) that directly follows an insert(at, c):
                \* at, c and the row contents before that insert
    changed,    \* an insert or delete has changed the row contents since
                \* the last save that wrote the whole file (or since the start)
    mutated,    \* an in-range insert or delete was called since the last
                \* save that wrote the whole file (or since the start)
    editor,     \* the Editor besides its document: should_quit, cursor,
                \* offset, quit_times, and its place in the search prompt
    quit_presses \* the Ctrl-Q presses made in a row, up to the last key

vars == <<document, disk, panicked, ret, last, pre, undo, changed, mutated,
          editor, quit_presses>>

TotalChars(doc) ==
    LET RECURSIVE sum(_)
        sum(i) == IF i = 0 THEN 0 ELSE Row_len(doc.rows[i]) + sum(i - 1)
    IN  sum(Len(doc.rows))

\* the documents the model keeps to
WithinBounds(doc) == Len(doc.rows) <= MaxRows /\ TotalChars(doc) <= MaxChars

\* the Size of Terminal::default
Screen == [width |-> MaxScreen, height |-> MaxScreen]

\* the editors at the start: Editor::default on a terminal of some size
\* (Terminal::default takes two rows off the height, which may leave none)
Editors ==
    {Editor_default([width |-> MaxScreen, height |-> h]) : h \in 0..MaxScreen}

NoArg == [x |-> 0, y |-> 0]
Call(op, at, c) == [at |-> at, c |-> c, op |-> op]

\* the files the editor may be started on
InitialFiles == {NoFile, File(<<"/", NL, "*", NL>>)}
\* the outcomes of the I/O of one save
IoOutcomes == [writes : 0..(2 * MaxRows), create : BOOLEAN]

\* Editor::default: the document is opened from the file named on the
\* command line, Document::default() without one or when it cannot be opened
Init ==
    /\ \E f \in InitialFiles : disk = [n \in FileNames |-> f]
    /\ \E arg \in {None} \cup {Some(n) : n \in FileNames} :
          document = IF arg = None THEN Document_default
                     ELSE LET o == Document_open(disk, arg[1])
                          IN  IF o.ok THEN o.doc ELSE Document_default
    /\ panicked = FALSE
    /\ ret = "unit"
    /\ last = Call("init", NoArg, "")
    /\ pre = [document |-> document, disk |-> disk]
    /\ undo = None
    /\ changed = FALSE
    /\ mutated = FALSE
    /\ editor = Editor_default(Screen)
    /\ quit_presses = 0

\* document.insert(at, c)
Insert(at, c) ==
    /\ ~panicked
    /\ LET r == Document_insert(document, at, c) IN
          /\ WithinBounds(r.doc)
          /\ document' = r.doc
          /\ panicked' = r.panic
          /\ changed' = (changed \/ Text(r.doc) # Text(document))
          /\ mutated' = (mutated \/ at.y <= Len(document.rows))
    /\ ret' = "unit"
    /\ last' = Call("insert", at, c)
    /\ pre' = [document |-> document, disk |-> disk]
    /\ undo' = None
    /\ UNCHANGED <<disk, editor, quit_presses>>

\* document.delete(at)
Delete(at) ==
    /\ ~panicked
    /\ LET r == Document_delete(document, at) IN
          /\ document' = r.doc
          /\ panicked' = r.panic
          /\ changed' = (changed \/ Text(r.doc) # Text(document))
          /\ mutated' = (mutated \/ at.y < Len(document.rows))
    /\ ret' = "unit"
    /\ last' = Call("delete", at, "")
    /\ pre' = [document |-> document, disk |-> disk]
    /\ undo' = IF last.op = "insert" /\ last.at = at
               THEN Some([at |-> at, c |-> last.c, base |-> Text(pre.document)])
               ELSE None
    /\ UNCHANGED <<disk, editor, quit_presses>>

\* document.highlight(word); the word is kept in last.c
Highlight(word) ==
    /\ ~panicked
    /\ document' = Document_highlight(document, word)
    /\ ret' = "unit"
    /\ last' = Call("highlight", NoArg, word)
    /\ pre' = [document |-> document, disk |-> disk]
    /\ undo' = None
    /\ UNCHANGED <<disk, panicked, changed, mutated, editor, quit_presses>>

\* the call of save meets a failing File::create or write_all under io
io_fails(doc, io) ==
    doc.file_name # None /\ (~io.create \/ io.writes < 2 * Len(doc.rows))

\* document.save() under the I/O outcome io
Save(io) ==
    /\ ~panicked
    /\ LET r == Document_save(document, disk, io) IN
          /\ document' = r.doc
          /\ disk' = r.fs
          /\ ret' = r.ret
          /\ changed' = (changed /\ ~(r.ret = "Ok" /\ document.file_name # None))
          /\ mutated' = (mutated /\ ~(r.ret = "Ok" /\ document.file_name # None))
    /\ last' = Call("save", NoArg, IF io_fails(document, io) THEN "io_error" ELSE "io_ok")
    /\ pre' = [document |-> document, disk |-> disk]
    /\ undo' = None
    /\ UNCHANGED <<panicked, editor, quit_presses>>

\* document.file_name = new_name, of the "Save as" prompt of Editor::save
SetFileName(name) ==
    /\ ~panicked
    /\ document.file_name = None
    /\ document' = [document EXCEPT !.file_name = Some(name)]
    /\ ret' = "unit"
    /\ last' = Call("set_file_name", NoArg, "")
    /\ pre' = [document |-> document, disk |-> disk]
    /\ undo' = None
    /\ UNCHANGED <<disk, panicked, changed, mutated, editor, quit_presses>>

\* the editing session: the calls that change the text and its highlighting
Next ==
    \/ \E at \in Positions, c \in Chars \cup {NL} : Insert(at, c)
    \/ \E at \in Positions : Delete(at)
    \/ \E word \in Words : Highlight(word)

Spec == Init /\ [][Next]_vars

\* the session with saving: edits at the start of a row, with one character
SavePositions == {at \in Positions : at.x = 0}
SaveChars == {"*", NL}

NextSave ==
    \/ \E at \in SavePositions, c \in SaveChars : Insert(at, c)
    \/ \E at \in SavePositions : Delete(at)
    \/ \E io \in IoOutcomes : Save(io)
    \/ \E name \in FileNames : SetFileName(name)

SpecSave == Init /\ [][NextSave]_vars

\* the session on a document without a file name: Document::default(),
\* edited, highlighted and saved, never named
InitUnnamed == Init /\ document = Document_default /\ disk = [n \in FileNames |-> NoFile]

NextUnnamed ==
    \/ \E at \in Positions, c \in Chars \cup {NL} : Insert(at, c)
    \/ \E at \in Positions : Delete(at)
    \/ \E word \in Words : Highlight(word)
    \/ \E io \in IoOutcomes : Save(io)

SpecUnnamed == InitUnnamed /\ [][NextUnnamed]_vars

\* the texts of at most rows rows and chars characters over Chars
Strings(chars) == UNION {[1..k -> Chars] : k \in 0..chars}
Texts(rows, chars) ==
    {t \in UNION {[1..n -> Strings(chars)] : n \in 0..rows} :
        TotalChars([rows |-> [i \in 1..Len(t) |-> Row_from(t[i])]]) <= chars}

RECURSIVE FileOf(_)
\* the file of a text: every row followed by a newline
FileOf(text) ==
    IF text = <<>> THEN <<>>
    ELSE text[1] \o <<NL>> \o FileOf(SubSeq(text, 2, Len(text)))

\* Editor::default on a file that holds one of texts
InitOpened(texts) ==
    /\ \E t \in texts : disk = [n \in FileNames |-> File(FileOf(t))]
    /\ \E n \in FileNames : document = Document_open(disk, n).doc
    /\ panicked = FALSE
    /\ ret = "unit"
    /\ last = Call("init", NoArg, "")
    /\ pre = [document |-> document, disk |-> disk]
    /\ undo = None
    /\ changed = FALSE
    /\ mutated = FALSE
    /\ editor = Editor_default(Screen)
    /\ quit_presses = 0

\* the queries typed into the search prompt
Queries == {<<"*">>, <<"*", "*">>, <<"/", "*">>}
Directions == {Forward, Backward}

\* document.find(query, at, direction); ret is the position found and the
\* positions the rows were scanned from
Find(query, at, direction) ==
    /\ ~panicked
    /\ LET r == Document_find(document, query, at, direction) IN
          /\ ret' = [visited |-> r.visited, found |-> r.found]
          /\ panicked' = r.panic
    /\ last' = Call("find", at, [query |-> query, direction |-> direction])
    /\ pre' = [document |-> document, disk |-> disk]
    /\ undo' = None
    /\ UNCHANGED <<document, disk, changed, mutated, editor, quit_presses>>

\* the search session: a file is opened and searched
InitFind == InitOpened(Texts(MaxRows, MaxChars))

NextFind ==
    \E query \in Queries, at \in Positions, direction \in Directions :
        Find(query, at, direction)

SpecFind == InitFind /\ [][NextFind]_vars

\* the files whose rows can hold a comment opener and a row after it
OpenedTexts == Texts(MaxRows, MaxChars + 1)

\* the session of whole-document passes: a file is opened, then highlighted
\* with and without a search word, and saved
InitPasses == InitOpened(OpenedTexts)

NextPasses ==
    \/ \E word \in Words : Highlight(word)
    \/ \E io \in IoOutcomes : Save(io)

SpecPasses == InitPasses /\ [][NextPasses]_vars

\* the editing session on an opened file, edited at the start of its rows
NextOpened ==
    \/ \E at \in SavePositions, c \in SaveChars : Insert(at, c)
    \/ \E at \in SavePositions : Delete(at)
    \/ \E word \in Words : Highlight(word)

SpecOpened == InitPasses /\ [][NextOpened]_vars

\* Document::open(name) of a later session on the same disk; last.c tells
\* whether it directly follows a save of the document to that path which
\* returned Ok
Open(name) ==
    /\ ~panicked
    /\ LET o == Document_open(disk, name) IN
          /\ o.ok
          /\ document' = o.doc
    /\ ret' = "unit"
    /\ last' = Call("open", NoArg,
                    IF last.op = "save" /\ ret = "Ok" /\ document.file_name = Some(name)
                    THEN "after_save" ELSE "other")
    /\ pre' = [document |-> document, disk |-> disk]
    /\ undo' = None
    /\ changed' = FALSE
    /\ mutated' = FALSE
    /\ UNCHANGED <<disk, panicked, editor, quit_presses>>

\* the bytes of the files opened: a character, the carriage return and the
\* newline
FileBytes == {"*", "\r", NL}
Files == {File(b) : b \in UNION {[1..k -> FileBytes] : k \in 0..(MaxChars + 2)}}

\* the session that writes a file and reads it back
InitRoundTrip ==
    /\ \E f \in Files : disk = [n \in FileNames |-> f]
    /\ \E n \in FileNames : document = Document_open(disk, n).doc
    /\ panicked = FALSE
    /\ ret = "unit"
    /\ last = Call("init", NoArg, "")
    /\ pre = [document |-> document, disk |-> disk]
    /\ undo = None
    /\ changed = FALSE
    /\ mutated = FALSE
    /\ editor = Editor_default(Screen)
    /\ quit_presses = 0

NextRoundTrip ==
    \/ \E at \in SavePositions, c \in SaveChars : Insert(at, c)
    \/ \E at \in SavePositions : Delete(at)
    \/ \E io \in IoOutcomes : Save(io)
    \/ \E name \in FileNames : Open(name)

SpecRoundTrip == InitRoundTrip /\ [][NextRoundTrip]_vars

\* Editor::default: the document as in Init, the terminal of some size
InitEditor ==
    /\ \E f \in InitialFiles : disk = [n \in FileNames |-> f]
    /\ \E arg \in {None} \cup {Some(n) : n \in FileNames} :
          document = IF arg = None THEN Document_default
                     ELSE LET o == Document_open(disk, arg[1])
                          IN  IF o.ok THEN o.doc ELSE Document_default
    /\ panicked = FALSE
    /\ ret = None
    /\ last = Call("init", NoArg, "")
    /\ pre = [document |-> document, disk |-> disk, cursor |-> Position_default]
    /\ undo = None
    /\ changed = FALSE
    /\ mutated = FALSE
    /\ editor \in Editors
    /\ quit_presses = 0

\* one key read and handled, h being what its handler leaves. On the key
\* that ends the search last tells whether the prompt returned a query and
\* whether the search had moved the cursor; ret is the position document.find
\* returned to the search;
\* pre the document and the cursor as the last key outside the search prompt
\* left them
Pressed(key, h) ==
    /\ ~panicked
    /\ ~editor.should_quit
    /\ WithinBounds(h.doc)
    /\ document' = h.doc
    /\ disk' = h.fs
    /\ panicked' = h.panic
    /\ editor' = h.ed
    /\ ret' = h.found
    /\ last' = IF editor.in_search /\ ~h.ed.in_search
               THEN Call("search", NoArg,
                         IF prompt_result(editor.result, key) # <<>> THEN "query"
                         ELSE IF editor.cursor_position = editor.old_position
                         THEN "no_query" ELSE "no_query_moved")
               ELSE Call("key", NoArg, "")
    /\ pre' = IF editor.in_search THEN pre
              ELSE [document |-> h.doc, disk |-> h.fs, cursor |-> h.ed.cursor_position]
    /\ quit_presses' = IF key = CtrlQ /\ ~editor.in_search
                       THEN Min(quit_presses + 1, QUIT_TIMES + 1) ELSE 0
    /\ UNCHANGED <<undo, changed, mutated>>

\* Editor::process_keypress, key by key
PressQuit ==
    ~editor.in_search /\ Pressed(CtrlQ, press_quit(editor, document, disk))

PressSave(new_name, io) ==
    /\ ~editor.in_search
    /\ Pressed(CtrlS, press_save(editor, document, disk, new_name, io))

PressFind ==
    /\ ~editor.in_search
    /\ Pressed(CtrlF, Handled(search_begin(editor), document, disk, FALSE))

PressChar(c) ==
    /\ ~editor.in_search
    /\ Pressed(Key("Char", c), press_char(editor, document, disk, c))

PressDelete ==
    /\ ~editor.in_search
    /\ Pressed(Key("Delete", ""), press_delete(editor, document, disk))

PressBackspace ==
    /\ ~editor.in_search
    /\ Pressed(Key("Backspace", ""), press_backspace(editor, document, disk))

PressMove(key) ==
    /\ ~editor.in_search
    /\ Pressed(key, press_move(editor, document, disk, key))

\* any other key (the `_ => ()` arm)
PressOther ==
    /\ ~editor.in_search
    /\ Pressed(Key("Other", ""), Handled(keypress_end(editor), document, disk, FALSE))

\* the keys read by the search prompt
PromptKeys ==
    {Key("Char", c) : c \in Chars} \cup MoveKeys
        \cup {Enter, Esc, Key("Backspace", ""), Key("Other", "")}

\* one key read by Editor::prompt while the search is on
PressInSearch(key) ==
    /\ editor.in_search
    /\ key.kind = "Char" /\ key # Enter => Len(editor.result) < MaxChars
    /\ Pressed(key, prompt_key(editor, document, disk, key))

\* the outcomes of the I/O of a save: File::create fails, or all is written
EditorIo == {io \in IoOutcomes : io.writes = 2 * MaxRows}

\* what the "Save as: " prompt returns
NewNames == {None} \cup {Some(n) : n \in FileNames}

\* Editor::run, as far as quitting goes: every key of process_keypress, a
\* search being left with Esc at once
NextQuit ==
    \/ PressQuit
    \/ \E new_name \in NewNames, io \in EditorIo : PressSave(new_name, io)
    \/ PressFind
    \/ \E c \in Chars \cup {NL} : PressChar(c)
    \/ PressDelete
    \/ PressBackspace
    \/ \E key \in MoveKeys : PressMove(key)
    \/ PressOther
    \/ PressInSearch(Esc)

SpecQuit == InitEditor /\ [][NextQuit]_vars

\* the keys read by the search prompt when one character is searched for
StarPromptKeys == {key \in PromptKeys : key.kind = "Char" => key.c \in {"*", NL}}

\* Editor::run, as far as the cursor goes: every key that edits, moves, saves
\* and searches
NextCursor ==
    \/ \E new_name \in NewNames, io \in EditorIo : PressSave(new_name, io)
    \/ PressFind
    \/ \E c \in Chars \cup {NL} : PressChar(c)
    \/ PressDelete
    \/ PressBackspace
    \/ \E key \in MoveKeys : PressMove(key)
    \/ PressOther
    \/ \E key \in StarPromptKeys : PressInSearch(key)

SpecCursor == InitEditor /\ [][NextCursor]_vars

\* ------------------------------------------------------------------ claims
\* the text before the last call
PreText == Text(pre.document)
PreLen == Len(pre.document.rows)

\* a position valid against a text: 0 <= y <= len(rows), and
\* 0 <= x <= rows[y].len when y < len(rows)
ValidPos(text, at) ==
    /\ at.y <= Len(text)
    /\ (at.y < Len(text) => at.x <= Len(text[at.y + 1]))

LastInsertOutOfRange == last.op = "insert" /\ last.at.y > PreLen
LastDeleteOutOfRange == last.op = "delete" /\ last.at.y >= PreLen
LastInsertInRange == last.op = "insert" /\ last.at.y <= PreLen
LastDeleteInRange == last.op = "delete" /\ last.at.y < PreLen

\* C1: an insert with pos.y > len(rows) and a delete with pos.y >= len(rows)
\* do not panic and leave the whole document (rows with their content and
\* highlighting, dirty, file_name, file_type) as it was, for every pos.x and
\* every character, the newline included.
C1_OutOfRangeIsNoOp ==
    (LastInsertOutOfRange \/ LastDeleteOutOfRange)
        => (~panicked /\ document = pre.document)

\* C1 happens: a delete at pos.y = len(rows) of a clean, non-empty document
C1_Witness ==
    /\ LastDeleteOutOfRange
    /\ last.at.y = PreLen
    /\ PreLen > 0
    /\ ~pre.document.dirty

\* C2 as stated: a started document is clean, and after any one insert or
\* delete, at any position, it is dirty.
C2_DirtyAfterAnyCall ==
    /\ (last.op = "init" => ~Document_is_dirty(document))
    /\ (last.op \in {"insert", "delete"} => Document_is_dirty(document))

\* C2 amended: a started document is clean, and after any one insert with
\* pos.y <= len(rows) or delete with pos.y < len(rows) it is dirty.
C2_DirtyAfterInRangeCall ==
    /\ (last.op = "init" => ~Document_is_dirty(document))
    /\ ((LastInsertInRange \/ LastDeleteInRange) => Document_is_dirty(document))

\* C2 happens: an in-range delete that removes nothing dirties a clean
\* document opened from a file
C2_Witness ==
    /\ LastDeleteInRange
    /\ ~pre.document.dirty
    /\ pre.document.file_name # None
    /\ Text(document) = PreText
    /\ Document_is_dirty(document)

\* C3 as stated: every save that returns Ok leaves the document clean.
C3_OkSaveIsClean ==
    (last.op = "save" /\ ret = "Ok") => ~Document_is_dirty(document)

\* C3 amended: every save of a document with a file name that returns Ok
\* leaves the document clean.
C3_OkSaveOfNamedIsClean ==
    (last.op = "save" /\ ret = "Ok" /\ pre.document.file_name # None)
        => ~Document_is_dirty(document)

\* C3 happens: a dirty, named document is saved and the save returns Ok
C3_Witness ==
    /\ last.op = "save"
    /\ ret = "Ok"
    /\ pre.document.file_name # None
    /\ pre.document.dirty
    /\ Len(document.rows) > 1

\* C4: a save without a file name returns Ok, writes nothing, and leaves the
\* rows with their highlighting, file_type, file_name and dirty as they were.
C4_SaveUnnamedIsNoOp ==
    (last.op = "save" /\ pre.document.file_name = None)
        => (ret = "Ok" /\ document = pre.document /\ disk = pre.disk)

\* C4 happens: the document saved is dirty and carries the match highlighting
\* that a highlighting pass of save would have cleared
C4_Witness ==
    /\ last.op = "save"
    /\ pre.document.file_name = None
    /\ pre.document.dirty
    /\ \E i \in 1..PreLen : \E j \in 1..Len(pre.document.rows[i].highlighting) :
          pre.document.rows[i].highlighting[j] = "Match"

\* C5: a save whose File::create or one of whose writes fails returns the
\* error, leaves a dirty document dirty and the row contents and row count
\* as they were.
C5_FailedSaveKeepsDirty ==
    (last.op = "save" /\ last.c = "io_error")
        => /\ ret = "Err"
           /\ (pre.document.dirty => Document_is_dirty(document))
           /\ Text(document) = PreText

\* C5 happens: a write fails after a row was written, on a dirty document
C5_Witness ==
    /\ last.op = "save"
    /\ last.c = "io_error"
    /\ pre.document.dirty
    /\ PreLen > 1
    /\ \E n \in FileNames : disk[n].exists /\ Len(disk[n].bytes) > 0

\* C6 as stated: dirty is true iff an insert or delete has changed the rows
\* since the last successful save (or since the start).
C6_DirtyIffChanged == Document_is_dirty(document) <=> changed

\* C6 amended: dirty is true iff an in-range insert or delete was called
\* since the last successful save (or since the start), whether or not the
\* call changed the rows; so a document whose rows have been changed since
\* then is dirty.
C6_DirtyIffMutated ==
    /\ Document_is_dirty(document) <=> mutated
    /\ changed => Document_is_dirty(document)

\* C6 happens: dirty by a call that changed nothing
C6_Witness ==
    /\ Document_is_dirty(document)
    /\ mutated
    /\ ~changed
    /\ last.op = "delete"

\* C7 as stated: insert(pos, c), c not the newline, directly followed by
\* delete(pos) restores every row and the row count, for every valid pos.
C7_InsertDeleteAnyValid ==
    (undo # None /\ undo[1].c # NL /\ ValidPos(undo[1].base, undo[1].at))
        => Text(document) = undo[1].base

\* C7 amended: the same for every valid pos with pos.y < len(rows).
C7_InsertDeleteInRow ==
    (/\ undo # None
     /\ undo[1].c # NL
     /\ ValidPos(undo[1].base, undo[1].at)
     /\ undo[1].at.y < Len(undo[1].base))
        => Text(document) = undo[1].base

\* C7 happens: the character was put at the end of a row that a line follows
C7_Witness ==
    /\ undo # None
    /\ undo[1].c # NL
    /\ undo[1].at.y + 1 < Len(undo[1].base)
    /\ undo[1].at.x = Len(undo[1].base[undo[1].at.y + 1])
    /\ undo[1].at.x > 0

\* C8 as stated: insert(pos, newline) directly followed by delete(pos)
\* restores every row and the row count, for every valid pos.
C8_SplitMergeAnyValid ==
    (undo # None /\ undo[1].c = NL /\ ValidPos(undo[1].base, undo[1].at))
        => Text(document) = undo[1].base

\* C8 amended: the same for every valid pos with pos.y < len(rows).
C8_SplitMergeInRow ==
    (/\ undo # None
     /\ undo[1].c = NL
     /\ ValidPos(undo[1].base, undo[1].at)
     /\ undo[1].at.y < Len(undo[1].base))
        => Text(document) = undo[1].base

\* C8 happens: a row was split inside its text
C8_Witness ==
    /\ undo # None
    /\ undo[1].c = NL
    /\ undo[1].at.y < Len(undo[1].base)
    /\ undo[1].at.x > 0
    /\ undo[1].at.x < Len(undo[1].base[undo[1].at.y + 1])

\* the delete is at the end of a row that a line follows
LastDeleteJoins ==
    /\ LastDeleteInRange
    /\ last.at.x = Len(PreText[last.at.y + 1])
    /\ last.at.y + 1 < PreLen

\* C9: a delete at the end of a row that a line follows removes the next row
\* and puts its content after the row's; the other rows keep their content
\* and order and the row count drops by one.  Every other in-range delete
\* leaves the row count as it was.
C9_DeleteJoinsLines ==
    /\ LastDeleteJoins =>
          /\ Len(document.rows) = PreLen - 1
          /\ \A i \in 1..(PreLen - 1) :
                Text(document)[i] =
                    IF i < last.at.y + 1 THEN PreText[i]
                    ELSE IF i = last.at.y + 1 THEN PreText[i] \o PreText[i + 1]
                    ELSE PreText[i + 1]
    /\ (LastDeleteInRange /\ ~LastDeleteJoins) => Len(document.rows) = PreLen

\* C9 happens: two non-empty rows were joined
C9_Witness ==
    /\ LastDeleteJoins
    /\ PreText[last.at.y + 1] # <<>>
    /\ PreText[last.at.y + 2] # <<>>
    /\ PreText[last.at.y + 1] # PreText[last.at.y + 2]

\* the delete is at the end of the last row
LastDeleteAtEnd ==
    /\ last.op = "delete"
    /\ PreLen > 0
    /\ last.at.y = PreLen - 1
    /\ last.at.x = Len(PreText[PreLen])

\* C10: a delete at the end of the last row does not panic and leaves
\* len(rows) and every row's content as they were.
C10_DeleteAtEndOfText ==
    LastDeleteAtEnd => (~panicked /\ Text(document) = PreText)

\* C10 happens: the last row is not the only one and not empty
C10_Witness ==
    /\ LastDeleteAtEnd
    /\ PreLen > 1
    /\ last.at.x > 0

\* ------------------------------------------------------- claims: invariants
\* C13: after open and after any sequence of inserts and deletes (splits,
\* merges and appended rows included) every row was highlighted after its
\* last content change: its highlighting is as long as its content.
C13_HighlightCoversContent ==
    /\ ~panicked
    /\ \A i \in 1..Len(document.rows) :
           Len(document.rows[i].highlighting) = Row_len(document.rows[i])

\* a row split in the middle: both halves hold a character
C13_Witness ==
    /\ LastInsertInRange
    /\ last.c = NL
    /\ last.at.y < PreLen
    /\ last.at.x = 1
    /\ Row_len(document.rows[last.at.y + 1]) = 1
    /\ Row_len(document.rows[last.at.y + 2]) = 1

\* C15: after open and after any sequence of inserts and deletes no row
\* holds a newline: inserting the newline splits a row or appends an empty
\* one, it is never inserted as a character.
C15_NoNewlineInRow ==
    \A i \in 1..Len(document.rows) :
        \A j \in 1..Len(document.rows[i].string) : document.rows[i].string[j] # NL

\* a newline inserted in a row, and one inserted past the last row
C15_Witness ==
    /\ LastInsertInRange
    /\ last.c = NL
    /\ Len(document.rows) = PreLen + 1
    /\ \/ last.at.y = PreLen
       \/ last.at.x = 1 /\ Row_len(pre.document.rows[last.at.y + 1]) = 2

\* the rows of the document from 1-based index from on are the rows of the
\* document before the call, shift rows further
RowsKept(from, to, shift) ==
    \A i \in from..to : document.rows[i] = pre.document.rows[i + shift]

RECURSIVE ContinuationIn(_, _, _, _)
\* continuation_in of row i (1-based) when the rows are highlighted in
\* document order: false for the first row, continuation_out of the row
\* before for every other row
ContinuationIn(rows, i, opts, word) ==
    IF i = 1 THEN FALSE
    ELSE Row_highlight(rows[i - 1], opts, word,
                       ContinuationIn(rows, i - 1, opts, word)).out

\* the rows after one pass in document order that propagates continuation
Propagated(rows, opts, word) ==
    [i \in 1..Len(rows) |->
        Row_highlight(rows[i], opts, word, ContinuationIn(rows, i, opts, word)).row]

\* C16: Document::open highlights the rows in document order and propagates
\* continuation: row 0 with continuation_in = false, row i > 0 with the
\* continuation_out of row i - 1.
C16_OpenPropagates ==
    last.op = "init" =>
        document.rows =
            Propagated(document.rows, highlighting_options(document.file_type), None)

\* continuation_out of a row highlighted by an edit
EditedOut(row) ==
    Row_highlight(row, highlighting_options(document.file_type), None, FALSE).out

\* C17: after an insert or a delete in a row, when the row's outgoing
\* continuation flag changed with the edit, the following row is highlighted
\* again with the new continuation_in.
C17_EditCascades ==
    LET y == last.at.y + 1 IN
    (/\ (LastInsertInRange /\ last.c # NL) \/ (LastDeleteInRange /\ ~LastDeleteJoins)
     /\ y < Len(document.rows)
     /\ y < PreLen
     /\ EditedOut(document.rows[y]) # EditedOut(pre.document.rows[y]))
        => document.rows[y + 1] =
               Row_highlight(pre.document.rows[y + 1],
                             highlighting_options(document.file_type), None,
                             EditedOut(document.rows[y])).row

\* a pass over a document with a file name that wrote the whole file
LastSaveWrote == last.op = "save" /\ ret = "Ok" /\ pre.document.file_name # None

\* C18: Document::highlight(query) and a successful Document::save highlight
\* every row once in document order, row 0 with continuation_in = false and
\* row i > 0 with the continuation_out of row i - 1; highlight passes its
\* query to every row and save passes none.
C18_PassesPropagate ==
    /\ last.op = "highlight" =>
           document.rows =
               Propagated(pre.document.rows,
                          highlighting_options(pre.document.file_type), last.c)
    /\ LastSaveWrote =>
           document.rows =
               Propagated(pre.document.rows,
                          highlighting_options(FileType_from(pre.document.file_name[1])),
                          None)

\* a save that turned the row after a comment opener into a comment row
C18_Witness ==
    /\ LastSaveWrote
    /\ Len(document.rows) = 2
    /\ document.rows[1].string = <<"/", "*">>
    /\ document.rows[2].highlighting = <<"MultilineComment">>
    /\ pre.document.rows[2].highlighting # <<"MultilineComment">>

\* ------------------------------------------------------- claims: round trip
\* the rows are non-empty lines without a newline
NonEmptyLines(text) ==
    \A i \in 1..Len(text) :
        Len(text[i]) > 0 /\ \A j \in 1..Len(text[i]) : text[i][j] # NL

\* C14: for a document with a file name whose rows are N non-empty lines
\* without a newline, a successful save followed by an open of the same path
\* yields N rows with the contents of the original rows, in order.
C14_SaveOpenRoundTrip ==
    (/\ last.op = "open"
     /\ last.c = "after_save"
     /\ NonEmptyLines(Text(pre.document)))
        => Text(document) = Text(pre.document)

\* ----------------------------------------------------------- claims: search
LastFind(direction) ==
    /\ last.op = "find"
    /\ last.c.direction = direction
    /\ last.at.y < Document_len(document)

\* the positions at which the query of the last call occurs in the document
Matches ==
    {p \in [x : 0..MaxChars, y : 0..(Document_len(document) - 1)] :
        p.x \in MatchOffsets(document.rows[p.y + 1].string, last.c.query)}

\* document order of positions
Before(p, q) == p.y < q.y \/ (p.y = q.y /\ p.x <= q.x)

MatchesAtOrAfter == {p \in Matches : Before(last.at, p)}
MatchesAtOrBefore == {p \in Matches : Before(p, last.at)}

\* C11: a forward find from a row of the document returns the first match in
\* document order at or after the start position (the leftmost match at
\* column >= from.x in row from.y, else the leftmost match of the nearest
\* later row that has one, without wrapping), and none when there is none.
C11_ForwardFindsFirstMatch ==
    LastFind(Forward) =>
        /\ ~panicked
        /\ IF MatchesAtOrAfter = {} THEN ret.found = None
           ELSE ret.found =
                    Some(CHOOSE p \in MatchesAtOrAfter :
                             \A q \in MatchesAtOrAfter : Before(p, q))

\* a forward find that passed its start row and matched the next row at a
\* column left of the start column
C11_Witness ==
    /\ LastFind(Forward)
    /\ last.at = [x |-> 1, y |-> 0]
    /\ ret.found = Some([x |-> 0, y |-> 1])

\* C12: a backward find from a row of the document scans row from.y from
\* column from.x, then every prior row once, from its last column, down to
\* row 0 and no row after from.y; it returns the rightmost match at or before
\* the scan start of the first scanned row that has one, and none otherwise.
C12_BackwardFindsLastMatch ==
    LastFind(Backward) =>
        LET n == Len(ret.visited) IN
        /\ ~panicked
        /\ n >= 1
        /\ ret.visited[1] = last.at
        /\ \A i \in 2..n :
               /\ ret.visited[i].y = last.at.y - (i - 1)
               /\ ret.visited[i].x = Row_len(document.rows[ret.visited[i].y + 1])
        /\ IF MatchesAtOrBefore = {}
           THEN ret.found = None /\ n = last.at.y + 1
           ELSE /\ ret.found =
                       Some(CHOOSE p \in MatchesAtOrBefore :
                                \A q \in MatchesAtOrBefore : Before(q, p))
                /\ ret.visited[n].y = ret.found[1].y

\* a backward find that passed its start row and matched in row 0
C12_Witness ==
    /\ LastFind(Backward)
    /\ last.at.y = 1
    /\ Len(ret.visited) = 2
    /\ ret.found # None
    /\ ret.found[1].y = 0

\* C20: find never indexes the rows out of bounds, whatever the query, the
\* start position and the direction: it returns none when from.y >= len, and
\* a position it returns has y < len, y >= from.y for Forward and y <= from.y
\* for Backward.
C20_FindStaysInBounds ==
    last.op = "find" =>
        /\ ~panicked
        /\ last.at.y >= Document_len(document) => ret.found = None
        /\ ret.found # None =>
               /\ ret.found[1].y < Document_len(document)
               /\ last.c.direction = Forward => ret.found[1].y >= last.at.y
               /\ last.c.direction = Backward => ret.found[1].y <= last.at.y

\* a backward find from row 0 without a match, where the scan steps back at
\* the first row
C20_Witness ==
    /\ LastFind(Backward)
    /\ last.at.y = 0
    /\ ret.found = None
    /\ Len(ret.visited) = 1

\* ----------------------------------------------------------- claims: editor
\* C21: while the document is dirty the editor sets should_quit only on the
\* fourth Ctrl-Q pressed in a row: each of the first QUIT_TIMES presses only
\* takes one off the countdown, and any other key sets the countdown back to
\* QUIT_TIMES. With a clean document one Ctrl-Q sets should_quit.
C21_QuitOnFourthPress ==
    /\ (editor.should_quit /\ Document_is_dirty(document)) =>
           quit_presses = QUIT_TIMES + 1
    /\ (~editor.should_quit /\ ~editor.in_search /\ Document_is_dirty(document)) =>
           /\ quit_presses <= QUIT_TIMES
           /\ editor.quit_times = QUIT_TIMES - quit_presses
    /\ (~Document_is_dirty(document) /\ ~editor.in_search) =>
           /\ editor.should_quit <=> quit_presses = 1
           /\ editor.quit_times = QUIT_TIMES

\* the editor has quit a dirty document on the fourth press
C21_Witness ==
    /\ editor.should_quit
    /\ Document_is_dirty(document)
    /\ quit_presses = QUIT_TIMES + 1

\* C22: from the cursor (0, 0) on, after every key handled by
\* process_keypress (a character, the newline, Delete, Backspace, the arrows,
\* PageUp and PageDown, Home and End, a search, a save) the cursor is a valid
\* position of the document: y <= len(rows), x <= the length of row y, and
\* x = 0 when y = len(rows).
C22_CursorIsValid ==
    /\ ~panicked
    /\ ValidPos(Text(document), editor.cursor_position)
    /\ editor.cursor_position.y = Document_len(document) =>
           editor.cursor_position.x = 0

\* the cursor on the empty second row of an edited document, below a longer
\* first row
C22_Witness ==
    /\ ~editor.in_search
    /\ Document_is_dirty(document)
    /\ Document_len(document) = 2
    /\ Row_len(document.rows[1]) = 2
    /\ Row_len(document.rows[2]) = 0
    /\ editor.cursor_position = [x |-> 0, y |-> 1]

\* the search has just ended without a query (Esc, or Enter on no input)
SearchCancelled == last.op = "search" /\ last.c \in {"no_query", "no_query_moved"}

\* C23: when the search prompt ends without a query the cursor is where it
\* was before the search, whatever keys moved it and whatever matches it
\* jumped to; the search leaves the row contents and the dirty flag as they
\* were, and its last highlight pass is made without a query.
C23_CancelRestoresCursor ==
    SearchCancelled =>
        /\ ~editor.in_search
        /\ editor.cursor_position = pre.cursor
        /\ Text(document) = Text(pre.document)
        /\ Document_is_dirty(document) = Document_is_dirty(pre.document)
        /\ document.rows =
               Propagated(pre.document.rows,
                          highlighting_options(document.file_type), None)

\* a search left without a query after it had moved the cursor off its
\* place, in a document with unsaved changes
C23_Witness ==
    /\ SearchCancelled
    /\ last.c = "no_query_moved"
    /\ Document_is_dirty(document)
    /\ editor.cursor_position = [x |-> 0, y |-> 0]

\* C24: in the search prompt, when a Right or Down key finds no match the
\* cursor ends where it was before the key: the move_cursor(Left) that makes
\* up for it undoes the move_cursor(Right), at every cursor position, the
\* end of a row and the position past the last row included.
C24_FailedMoveKeepsCursor ==
    [][\A key \in {Key("Right", ""), Key("Down", "")} :
          (PressInSearch(key) /\ ret' = None)
              => editor'.cursor_position = editor.cursor_position]_vars

====
